---- MODULE Spec2Model ----
(***************************************************************************)
(* Model of colour_analysis/analysis.py: the Analysis canvas, its          *)
(* validating property setters, its constructor, the key press dispatcher  *)
(* and the two colour space cycling actions.                               *)
(*                                                                         *)
(* Python values are records of one shape, [type, s, i, items], so that    *)
(* any two values can be compared: "s" carries a string, "i" an integer    *)
(* (or a boolean as 0 / 1), "items" the elements of a container.           *)
(***************************************************************************)
EXTENDS Integers, Sequences, FiniteSets, TLC

VARIABLES pc, args, op, self, view, error, calls, yielded, exposes, raises

vars == <<pc, args, op, self, view, error, calls, yielded, exposes, raises>>

(***************************************************************************)
(* Bounds of the model.                                                    *)
(***************************************************************************)
\* number of registry names of RGB_COLOURSPACES outside the exclusion set
NumRGB == 3
\* number of names of REFERENCE_COLOURSPACES
NumRef == 3
\* number of values recorded per cycling sequence
MaxCycles == 7

(***************************************************************************)
(* Python values.                                                          *)
(***************************************************************************)
PyVal(t, str, int, its) == [type |-> t, s |-> str, i |-> int, items |-> its]

None == PyVal("NoneType", "", 0, <<>>)

\* an attribute that no statement has assigned yet
Unset == PyVal("unset", "", 0, <<>>)

Str(x) == PyVal("str", x, 0, <<>>)

PyInt(n) == PyVal("int", "", n, <<>>)

PyBool(b) == PyVal("bool", "", IF b THEN 1 ELSE 0, <<>>)

PyTuple(its) == PyVal("tuple", "", 0, its)

\* truth value of a Python value, as "not value" computes it
Truthy(value) ==
    CASE value.type \in {"NoneType", "unset"} -> FALSE
      [] value.type \in {"bool", "int"} -> value.i # 0
      [] value.type = "str" -> value.s # ""
      [] value.type = "tuple" -> value.items # <<>>
      [] OTHER -> TRUE

(***************************************************************************)
(* Strings and their order.  sorted() orders strings by code point, so     *)
(* every upper case letter comes before every lower case one.              *)
(***************************************************************************)
CodePointOrder ==
    <<"ACEScg", "Adobe RGB 1998", "CIE Lab", "CIE Luv", "CIE XYZ", "CIE xyY",
      "Control", "G", "ProPhoto RGB", "R", "Rec. 709", "Shift",
      "aces", "adobe1998", "alt", "control", "g", "nope", "prophoto", "r",
      "sRGB", "shift">>

Rank(x) == CHOOSE k \in 1..Len(CodePointOrder) : CodePointOrder[k] = x

\* a conversion that leaves the letter case alone
lower_identity(x) == x

\* str.lower()
lower(x) ==
    CASE x = "Control" -> "control"
      [] x = "Shift" -> "shift"
      [] x = "G" -> "g"
      [] x = "R" -> "r"
      [] x = "None" -> "none"
      [] OTHER -> x

Range(q) == {q[k] : k \in 1..Len(q)}

RECURSIVE SortedSet(_)
\* sorted() of a collection without duplicates
SortedSet(S) ==
    IF S = {} THEN <<>>
    ELSE LET m == CHOOSE y \in S : \A z \in S : Rank(y) <= Rank(z)
         IN  <<m>> \o SortedSet(S \ {m})

RECURSIVE Insert(_, _)
Insert(x, q) ==
    IF q = <<>> THEN <<x>>
    ELSE IF Rank(x) <= Rank(Head(q)) THEN <<x>> \o q
    ELSE <<Head(q)>> \o Insert(x, Tail(q))

RECURSIVE sorted(_)
\* sorted() of a list, duplicates kept
sorted(q) == IF q = <<>> THEN <<>> ELSE Insert(Head(q), sorted(Tail(q)))

(***************************************************************************)
(* The registries the module imports.                                      *)
(***************************************************************************)
RGBPool == <<"Rec. 709", "ACEScg", "sRGB", "Adobe RGB 1998", "ProPhoto RGB">>

\* names the correlate cycle leaves out
ExcludedColourspaces == {"aces", "adobe1998", "prophoto"}

RGB_COLOURSPACES == {RGBPool[k] : k \in 1..NumRGB} \cup ExcludedColourspaces

RefPool == <<"CIE XYZ", "CIE xyY", "CIE Lab", "CIE Luv">>

REFERENCE_COLOURSPACES == SubSeq(RefPool, 1, NumRef)

\* list.index(): position of the first occurrence, counted from 0
index(q, x) == (CHOOSE k \in 1..Len(q) : q[k] = x /\ \A j \in 1..(k - 1) : q[j] # x) - 1

(***************************************************************************)
(* The file system and the image files on it.                              *)
(***************************************************************************)
DEFAULT_IMAGE == "image.exr"

ExistingPaths == {"image.exr", "rgba.png", "grey.png"}

\* shape (rows, columns, channels) of the array read_image() decodes
DecodedShape(path) ==
    CASE path = "rgba.png" -> <<3, 2, 4>>
      [] path = "grey.png" -> <<2, 3, 1>>
      [] OTHER -> <<4, 5, 3>>

NdArray(shape) == PyVal("ndarray", "", 0, shape)

(***************************************************************************)
(* Outcomes.                                                               *)
(***************************************************************************)
NoError == [type |-> "", at |-> ""]

Raise(w, type, at) == [w EXCEPT !.error = [type |-> type, at |-> at]]

Failed(w) == w.error # NoError

\* run F on w unless an earlier statement has raised
Then(w, F(_)) == IF Failed(w) THEN w ELSE F(w)

Assign(w, field, value) == [w EXCEPT !.self[field] = value]

IsString(value) == value.type \in {"str", "unicode"}

(***************************************************************************)
(* Property setters.  Each takes the world w = [self, view, error, calls,  *)
(* yielded] and the assigned value, and gives the world after the call.    *)
(***************************************************************************)
\* the setter without the assertion on os.path.exists
image_path_setter_no_exists(w, value) ==
    IF value # None /\ ~IsString(value)
    THEN Raise(w, "AssertionError", "image_path")
    ELSE Assign(w, "image_path", value)

image_path_setter(w, value) ==
    IF value # None /\ ~IsString(value)
    THEN Raise(w, "AssertionError", "image_path")
    ELSE IF value # None /\ value.s \notin ExistingPaths
    THEN Raise(w, "AssertionError", "image_path")
    ELSE Assign(w, "image_path", value)

image_setter(w, value) ==
    IF value # None /\ value.type \notin {"tuple", "list", "ndarray", "matrix"}
    THEN Raise(w, "AssertionError", "image")
    ELSE Assign(w, "image", value)

input_colourspace_setter(w, value) ==
    IF value # None /\ ~IsString(value)
    THEN Raise(w, "AssertionError", "input_colourspace")
    ELSE IF value # None /\ value.s \notin RGB_COLOURSPACES
    THEN Raise(w, "AssertionError", "input_colourspace")
    ELSE Assign(w, "input_colourspace", value)

input_oecf_setter(w, value) ==
    IF value # None /\ ~IsString(value)
    THEN Raise(w, "AssertionError", "input_oecf")
    ELSE IF value # None /\ value.s \notin RGB_COLOURSPACES
    THEN Raise(w, "AssertionError", "input_oecf")
    ELSE Assign(w, "input_oecf", value)

input_linear_setter(w, value) ==
    IF value # None /\ value.type # "bool"
    THEN Raise(w, "AssertionError", "input_linear")
    ELSE Assign(w, "input_linear", value)

input_resample_setter(w, value) ==
    IF value # None /\ value.type # "int"
    THEN Raise(w, "AssertionError", "input_resample")
    ELSE Assign(w, "input_resample", value)

\* The message of the failing membership assertion calls
\* REFERENCE_COLOURSPACES.keys(); the constructor calls .index() on the same
\* object, so it is a sequence and building the message raises
\* AttributeError in place of the AssertionError.
\* a setter that also hands the value to the gamut view
reference_colourspace_setter_pushing(w, value) ==
    IF value # None /\ ~IsString(value)
    THEN Raise(w, "AssertionError", "reference_colourspace")
    ELSE IF value # None /\ value.s \notin Range(REFERENCE_COLOURSPACES)
    THEN Raise(w, "AttributeError", "reference_colourspace")
    ELSE [Assign(w, "reference_colourspace", value)
             EXCEPT !.view["gamut_view"].reference_colourspace = value]

reference_colourspace_setter(w, value) ==
    IF value # None /\ ~IsString(value)
    THEN Raise(w, "AssertionError", "reference_colourspace")
    ELSE IF value # None /\ value.s \notin Range(REFERENCE_COLOURSPACES)
    THEN Raise(w, "AttributeError", "reference_colourspace")
    ELSE Assign(w, "reference_colourspace", value)

\* the setter with the assignment placed before the validation
correlate_colourspace_setter_unchecked(w, value) ==
    IF value # None /\ ~IsString(value)
    THEN Raise(w, "AssertionError", "correlate_colourspace")
    ELSE IF value # None /\ value.s \notin RGB_COLOURSPACES
    THEN Raise(Assign(w, "correlate_colourspace", value),
               "AssertionError", "correlate_colourspace")
    ELSE Assign(w, "correlate_colourspace", value)

\* a setter that starts the correlate cycle over
correlate_colourspace_setter_reseeding(w, value) ==
    IF value # None /\ ~IsString(value)
    THEN Raise(w, "AssertionError", "correlate_colourspace")
    ELSE IF value # None /\ value.s \notin RGB_COLOURSPACES
    THEN Raise(w, "AssertionError", "correlate_colourspace")
    ELSE [Assign(w, "correlate_colourspace", value)
             EXCEPT !.self.RGB_colourspaces_cycle.i = 0]

correlate_colourspace_setter(w, value) ==
    IF value # None /\ ~IsString(value)
    THEN Raise(w, "AssertionError", "correlate_colourspace")
    ELSE IF value # None /\ value.s \notin RGB_COLOURSPACES
    THEN Raise(w, "AssertionError", "correlate_colourspace")
    ELSE Assign(w, "correlate_colourspace", value)

layout_setter(w, value) ==
    IF value # None /\ ~IsString(value)
    THEN Raise(w, "AssertionError", "layout")
    ELSE Assign(w, "layout", value)

settings_setter(w, value) == Raise(w, "AttributeError", "settings")

actions_setter(w, value) == Raise(w, "AttributeError", "actions")

console_view_setter(w, value) == Raise(w, "AttributeError", "console_view")

\* the setter of a writable attribute in place of the read only one
gamut_view_setter_writable(w, value) == Assign(w, "gamut_view", value)

gamut_view_setter(w, value) == Raise(w, "AttributeError", "gamut_view")

image_view_setter(w, value) == Raise(w, "AttributeError", "image_view")

diagram_view_setter(w, value) == Raise(w, "AttributeError", "diagram_view")

ColourspaceFields ==
    {"input_colourspace", "input_oecf", "reference_colourspace",
     "correlate_colourspace"}

ReadOnlyFields ==
    {"settings", "actions", "console_view", "gamut_view", "image_view",
     "diagram_view"}

\* "self.<field> = value" from outside the class
setattr(w, field, value) ==
    CASE field = "image_path" -> image_path_setter(w, value)
      [] field = "image" -> image_setter(w, value)
      [] field = "input_colourspace" -> input_colourspace_setter(w, value)
      [] field = "input_oecf" -> input_oecf_setter(w, value)
      [] field = "input_linear" -> input_linear_setter(w, value)
      [] field = "input_resample" -> input_resample_setter(w, value)
      [] field = "reference_colourspace" -> reference_colourspace_setter(w, value)
      [] field = "correlate_colourspace" -> correlate_colourspace_setter(w, value)
      [] field = "layout" -> layout_setter(w, value)
      [] field = "settings" -> settings_setter(w, value)
      [] field = "actions" -> actions_setter(w, value)
      [] field = "console_view" -> console_view_setter(w, value)
      [] field = "gamut_view" -> gamut_view_setter(w, value)
      [] field = "image_view" -> image_view_setter(w, value)
      [] field = "diagram_view" -> diagram_view_setter(w, value)

(***************************************************************************)
(* Settings structures.  A settings structure is referred to by the name   *)
(* of its entry in this catalogue; SETTINGS_FILE holds the "default" one.  *)
(***************************************************************************)
ViewNames == {"console_view", "gamut_view", "image_view", "diagram_view"}

\* the value of a "sequence" entry: its modifiers list and its key
SequenceEntry(modifiers, key) == PyVal("dict", key, 0, modifiers)

ActionEntry(name, sequence) == [name |-> name, sequence |-> sequence]

ViewEntry(name, row, column, row_span, column_span) ==
    [name |-> name, view |-> name, row |-> row, column |-> column,
     row_span |-> row_span, column_span |-> column_span]

Layouts ==
    << [name |-> "layout_1",
        views |-> << ViewEntry("gamut_view", 0, 0, 1, 1),
                     ViewEntry("image_view", 0, 1, 1, 1),
                     ViewEntry("diagram_view", 1, 0, 1, 1),
                     ViewEntry("console_view", 1, 1, 1, 1) >>],
       [name |-> "layout_2",
        views |-> << ViewEntry("gamut_view", 0, 0, 2, 2) >>] >>

SettingsNames == {"one", "default", "shared"}

Settings(id) ==
    CASE id = "one" ->
           [layouts |-> Layouts,
            actions |-> << ActionEntry("cycle_correlate_colourspace",
                               SequenceEntry(<<"control">>, "g")) >>]
      [] id = "default" ->
           [layouts |-> Layouts,
            actions |-> << ActionEntry("cycle_correlate_colourspace",
                               SequenceEntry(<<"control">>, "g")),
                           ActionEntry("cycle_reference_colourspace",
                               SequenceEntry(<<"shift", "control">>, "r")),
                           ActionEntry("toggle_axis",
                               SequenceEntry(<<>>, "r")),
                           ActionEntry("fit_image", None) >>]
      [] id = "shared" ->
           [layouts |-> Layouts,
            actions |-> << ActionEntry("cycle_correlate_colourspace",
                               SequenceEntry(<<"control">>, "g")),
                           ActionEntry("cycle_reference_colourspace",
                               SequenceEntry(<<"control">>, "g")) >>]

SettingsRef(id) == PyVal("dict", id, 0, <<>>)

SETTINGS_FILE == "default"

(***************************************************************************)
(* Cycling sequences: itertools.cycle over a list, "i" counting the        *)
(* elements already consumed in the current round.                         *)
(***************************************************************************)
cycle(q) == PyVal("cycle", "", 0, q)

\* value that next() yields
Peek(c) == c.items[c.i + 1]

\* an iterator that starts its next round one element early
Advance_short(c) ==
    [c EXCEPT !.i = IF c.i + 2 >= Len(c.items) THEN 0 ELSE c.i + 1]

\* the iterator after next()
Advance(c) == [c EXCEPT !.i = (c.i + 1) % Len(c.items)]

\* a rotation that goes one step too far to the right
rotate_off_by_one(d, n) == [j \in 1..Len(d) |-> d[((j - 2 - n) % Len(d)) + 1]]

\* deque.rotate(n): n steps to the right, to the left when n is negative
rotate(d, n) == [j \in 1..Len(d) |-> d[((j - 1 - n) % Len(d)) + 1]]

Record(w, which, value) ==
    IF Len(w.yielded[which]) < MaxCycles
    THEN [w EXCEPT !.yielded[which] = Append(@, value)]
    ELSE w

(***************************************************************************)
(* Private methods of Analysis.                                            *)
(***************************************************************************)
RECURSIVE PutPreset(_, _)
\* OrderedDict.__setitem__: a known name keeps its place and gets the value
PutPreset(presets, preset) ==
    IF presets = <<>> THEN <<preset>>
    ELSE IF Head(presets).name = preset.name THEN <<preset>> \o Tail(presets)
    ELSE <<Head(presets)>> \o PutPreset(Tail(presets), preset)

RECURSIVE LayoutPresets(_, _)
LayoutPresets(presets, layouts) ==
    IF layouts = <<>> THEN presets
    ELSE LayoutPresets(
             PutPreset(presets, [name |-> Head(layouts).name,
                                 views |-> Head(layouts).views]),
             Tail(layouts))

__create_layout_presets(w) ==
    Assign(w, "layout_presets",
           PyVal("OrderedDict", "", 0,
                 LayoutPresets(w.self.layout_presets.items,
                               Settings(w.self.settings.s).layouts)))

\* the Sequence named tuple built from an action's settings entry
Sequence(entry) ==
    IF entry.sequence # None
    THEN [modifiers |-> entry.sequence.items, key |-> Str(entry.sequence.s)]
    ELSE [modifiers |-> <<>>, key |-> None]

__create_actions(w) ==
    LET entries == Settings(w.self.settings.s).actions
    IN  Assign(w, "actions",
               PyVal("dict", "", 0,
                     [k \in 1..Len(entries) |->
                         [name |-> entries[k].name,
                          sequence |-> Sequence(entries[k])]]))

\* a slice length that drops the last, incomplete, group
SliceLen_floor(n, step) ==
    LET m == IF step < 0 THEN -step ELSE step
    IN  n \div m

\* number of elements of range(0, n)[::step]
SliceLen(n, step) ==
    LET m == IF step < 0 THEN -step ELSE step
    IN  (n + m - 1) \div m

Min(x, y) == IF x <= y THEN x ELSE y

__create_image(w) ==
    LET path == w.self.image_path
        linear == w.self.input_linear
        oecf == w.self.input_oecf
        resample == w.self.input_resample
        decoded == DecodedShape(path.s)
        rgb == <<decoded[1], decoded[2], Min(decoded[3], 3)>>
    IN  IF path = None \/ path.s \notin ExistingPaths
        THEN Raise(w, "IOError", "__create_image")
        ELSE IF ~Truthy(linear) /\ oecf = None
        THEN Raise(w, "KeyError", "__create_image")
        ELSE IF resample = None
        THEN Assign(w, "image", NdArray(rgb))
        ELSE IF resample.i = 0
        THEN Raise(w, "ValueError", "__create_image")
        ELSE Assign(w, "image",
                    NdArray(<<SliceLen(rgb[1], resample.i),
                              SliceLen(rgb[2], resample.i), rgb[3]>>))

\* state of a view object: the arguments its constructor was given
ViewObject(image, input_colourspace, oecf, reference, correlate) ==
    [constructed |-> 1,
     image |-> image,
     input_colourspace |-> input_colourspace,
     oecf |-> oecf,
     reference_colourspace |-> reference,
     correlate_colourspace |-> correlate]

NoView ==
    [constructed |-> 0, image |-> Unset, input_colourspace |-> Unset,
     oecf |-> Unset, reference_colourspace |-> Unset,
     correlate_colourspace |-> Unset]

ViewRef(name) == PyVal("ViewBox", name, 0, <<>>)

\* the tuple self.__views
ViewsTuple == <<"console_view", "gamut_view", "image_view">>

__create_views(w) ==
    LET o == w.self
        console == [ViewObject(Unset, Unset, Unset, Unset, Unset)
                       EXCEPT !.constructed = 1 + w.view["console_view"].constructed]
        gamut == [ViewObject(o.image, o.input_colourspace, Unset,
                             o.reference_colourspace, o.correlate_colourspace)
                       EXCEPT !.constructed = 1 + w.view["gamut_view"].constructed]
        image == [ViewObject(o.image, o.input_colourspace, o.input_oecf,
                             Unset, o.correlate_colourspace)
                       EXCEPT !.constructed = 1 + w.view["image_view"].constructed]
        diagram == [ViewObject(o.image, o.input_colourspace, o.input_oecf,
                               Unset, o.correlate_colourspace)
                       EXCEPT !.constructed = 1 + w.view["diagram_view"].constructed]
    IN  [w EXCEPT !.view = [v \in ViewNames |->
                               CASE v = "console_view" -> console
                                 [] v = "gamut_view" -> gamut
                                 [] v = "image_view" -> image
                                 [] v = "diagram_view" -> diagram],
                  !.self.console_view = ViewRef("console_view"),
                  !.self.gamut_view = ViewRef("gamut_view"),
                  !.self.image_view = ViewRef("image_view"),
                  !.self.diagram_view = ViewRef("diagram_view"),
                  !.self.views = PyTuple(ViewsTuple)]

\* a lookup that falls back on the first preset
GetPreset_or_first(presets, name) ==
    IF name.type = "str" /\ \E k \in 1..Len(presets) : presets[k].name = name.s
    THEN LET k == CHOOSE j \in 1..Len(presets) : presets[j].name = name.s
         IN  PyVal("LayoutPreset", presets[k].name, 0, presets[k].views)
    ELSE PyVal("LayoutPreset", presets[1].name, 0, presets[1].views)

\* OrderedDict.get(): the preset of that name, None when there is none
GetPreset(presets, name) ==
    IF name.type = "str" /\ \E k \in 1..Len(presets) : presets[k].name = name.s
    THEN LET k == CHOOSE j \in 1..Len(presets) : presets[j].name = name.s
         IN  PyVal("LayoutPreset", presets[k].name, 0, presets[k].views)
    ELSE None

__layout_views(w) ==
    LET layout == GetPreset(w.self.layout_presets.items, w.self.layout)
        grid == PyVal("Grid", "", 0, <<>>)
    IN  IF layout = None
        THEN Raise(Assign(w, "grid", grid), "AttributeError", "__layout_views")
        ELSE Assign(w, "grid", [grid EXCEPT !.items = layout.items])

(***************************************************************************)
(* The cycling actions.                                                    *)
(***************************************************************************)
\* "<view>.<attribute> = value", a property setter of a view class
Push(w, v, attribute, value) ==
    IF <<v, attribute>> \in raises
    THEN Raise(w, "RuntimeError", v)
    ELSE [w EXCEPT !.view[v][attribute] = value]

\* an action that takes the new correlate as the input colour space too
cycle_correlate_colourspace_action_retagging(w) ==
    LET value == Str(Peek(w.self.RGB_colourspaces_cycle))
        w1 == [w EXCEPT !.self.RGB_colourspaces_cycle = Advance(@),
                        !.self.correlate_colourspace = value,
                        !.self.input_colourspace = value,
                        !.view["gamut_view"].correlate_colourspace = value,
                        !.view["image_view"].correlate_colourspace = value]
    IN  Record(w1, "correlate", value.s)

cycle_correlate_colourspace_action(w) ==
    LET value == Str(Peek(w.self.RGB_colourspaces_cycle))
        w1 == [w EXCEPT !.self.RGB_colourspaces_cycle = Advance(@),
                        !.self.correlate_colourspace = value]
        w2 == Push(Record(w1, "correlate", value.s),
                   "gamut_view", "correlate_colourspace", value)
    IN  Then(w2, LAMBDA x :
                 Push(x, "image_view", "correlate_colourspace", value))

\* an action that keeps the new reference to the coordinator
cycle_reference_colourspace_action_silent(w) ==
    LET value == Str(Peek(w.self.reference_colourspaces_cycle))
        w1 == [w EXCEPT !.self.reference_colourspaces_cycle = Advance(@),
                        !.self.reference_colourspace = value]
    IN  Record(w1, "reference", value.s)

cycle_reference_colourspace_action(w) ==
    LET value == Str(Peek(w.self.reference_colourspaces_cycle))
        w1 == [w EXCEPT !.self.reference_colourspaces_cycle = Advance(@),
                        !.self.reference_colourspace = value]
    IN  Push(Record(w1, "reference", value.s),
             "gamut_view", "reference_colourspace", value)

(***************************************************************************)
(* Analysis.__init__                                                       *)
(***************************************************************************)
DefaultArgs ==
    [image_path |-> Str(DEFAULT_IMAGE),
     input_colourspace |-> Str("Rec. 709"),
     input_oecf |-> Str("Rec. 709"),
     input_linear |-> PyBool(TRUE),
     input_resample |-> PyInt(1),
     reference_colourspace |-> Str("CIE xyY"),
     correlate_colourspace |-> Str("ACEScg"),
     settings |-> None,
     layout |-> Str("layout_1")]

\* the filter of the correlate cycle
\* a filter that lets every name through
IsEligible_any(c) == TRUE

IsEligible(c) == c \notin {"aces", "adobe1998", "prophoto"}

__init__(w, a) ==
    LET s0 == IF a.settings = None
              THEN Raise(w, "TypeError", "__init__")
              ELSE w
        s1 == Then(s0, LAMBDA x :
                  image_path_setter(Assign(x, "image_path", None),
                                    a.image_path))
        s2 == Then(s1, LAMBDA x :
                  image_setter(Assign(x, "image", None),
                               NdArray(<<256, 256, 3>>)))
        s3 == Then(s2, LAMBDA x :
                  input_colourspace_setter(
                      Assign(x, "input_colourspace", None),
                      a.input_colourspace))
        s4 == Then(s3, LAMBDA x :
                  input_oecf_setter(Assign(x, "input_oecf", None),
                                    a.input_oecf))
        s5 == Then(s4, LAMBDA x :
                  input_linear_setter(Assign(x, "input_linear", None),
                                      a.input_linear))
        s6 == Then(s5, LAMBDA x :
                  input_resample_setter(Assign(x, "input_resample", None),
                                        a.input_resample))
        s7 == Then(s6, LAMBDA x :
                  reference_colourspace_setter(
                      Assign(x, "reference_colourspace", None),
                      a.reference_colourspace))
        s8 == Then(s7, LAMBDA x :
                  correlate_colourspace_setter(
                      Assign(x, "correlate_colourspace", None),
                      a.correlate_colourspace))
        s9 == Then(s8, LAMBDA x :
                  Assign(x, "settings",
                         IF a.settings = None
                         THEN SettingsRef(SETTINGS_FILE)
                         ELSE a.settings))
        s10 == Then(s9, LAMBDA x :
                  layout_setter(Assign(x, "layout", None), a.layout))
        s11 == Then(s10, LAMBDA x :
                  [x EXCEPT !.self.layout_presets =
                                PyVal("OrderedDict", "", 0, <<>>),
                            !.self.actions = PyVal("dict", "", 0, <<>>),
                            !.self.console_view = None,
                            !.self.gamut_view = None,
                            !.self.image_view = None,
                            !.self.diagram_view = None,
                            !.self.views = None,
                            !.self.grid = None])
        s12 == Then(s11, LAMBDA x :
                  Assign(x, "RGB_colourspaces_cycle",
                         cycle(SelectSeq(SortedSet(RGB_COLOURSPACES),
                                         IsEligible))))
        s13 == Then(s12, LAMBDA x :
                  IF x.self.reference_colourspace.s
                         \notin Range(REFERENCE_COLOURSPACES)
                  THEN Raise(x, "ValueError", "__init__")
                  ELSE Assign(x, "reference_colourspaces_cycle",
                           cycle(rotate(REFERENCE_COLOURSPACES,
                                        -index(REFERENCE_COLOURSPACES,
                                               x.self.reference_colourspace.s)
                                        - 1))))
        s14 == Then(s13, __create_layout_presets)
        s15 == Then(s14, __create_actions)
        s16 == Then(s15, __create_image)
        s17 == Then(s16, __create_views)
        s18 == Then(s17, __layout_views)
    IN  Then(s18, LAMBDA x : Assign(x, "visible", PyBool(TRUE)))

(***************************************************************************)
(* Analysis.on_key_press                                                   *)
(***************************************************************************)
\* methods named <action>_action that the class itself defines
OwnHandlers ==
    {"cycle_correlate_colourspace_action", "cycle_reference_colourspace_action"}

MethodName(name) ==
    CASE name = "cycle_correlate_colourspace" ->
             "cycle_correlate_colourspace_action"
      [] name = "cycle_reference_colourspace" ->
             "cycle_reference_colourspace_action"
      [] name = "toggle_axis" -> "toggle_axis_action"
      [] name = "fit_image" -> "fit_image_action"

Log(w, target, method) == [w EXCEPT !.calls = Append(@, <<target, method>>)]

\* getattr(self, method)()
CallOwn(w, method) ==
    CASE method = "cycle_correlate_colourspace_action" ->
             cycle_correlate_colourspace_action(Log(w, "self", method))
      [] method = "cycle_reference_colourspace_action" ->
             cycle_reference_colourspace_action(Log(w, "self", method))

\* a call whose failure is swallowed
InvokeView_caught(w, v, method) == Log(w, v, method)

\* getattr(view, method)()
InvokeView(w, v, method) ==
    IF <<v, method>> \in raises
    THEN Raise(Log(w, v, method), "RuntimeError", v)
    ELSE Log(w, v, method)

RECURSIVE CallViews_placed(_, _, _)
\* a loop that skips the views the grid does not hold
CallViews_placed(w, views, method) ==
    IF views = <<>> \/ Failed(w) THEN w
    ELSE CallViews_placed(
             IF /\ method \in exposes[Head(views)]
                /\ \E k \in 1..Len(w.self.grid.items) :
                      w.self.grid.items[k].view = Head(views)
             THEN InvokeView(w, Head(views), method)
             ELSE w,
             Tail(views), method)

RECURSIVE CallViews(_, _, _)
\* the loop over self.__views
CallViews(w, views, method) ==
    IF views = <<>> \/ Failed(w) THEN w
    ELSE CallViews(IF method \in exposes[Head(views)]
                   THEN InvokeView(w, Head(views), method)
                   ELSE w,
                   Tail(views), method)

lowered(q) == [k \in 1..Len(q) |-> lower(q[k])]

\* a comparison that takes an action without a key for one of any key
Matches_unkeyed(event, action) ==
    /\ \/ action.sequence.key = None
       \/ Str(lower(event.key)) = action.sequence.key
    /\ sorted(lowered(event.modifiers)) = sorted(action.sequence.modifiers)

\* a comparison that looks at the key alone
Matches_key_only(event, action) ==
    Str(lower(event.key)) = action.sequence.key

Matches(event, action) ==
    /\ Str(lower(event.key)) = action.sequence.key
    /\ sorted(lowered(event.modifiers)) = sorted(action.sequence.modifiers)

RECURSIVE Dispatch(_, _, _)
\* the loop over self.__actions.values(), "order" being the dict's order
Dispatch(w, event, order) ==
    IF order = <<>> \/ Failed(w) THEN w
    ELSE LET action == w.self.actions.items[Head(order)]
             method == MethodName(action.name)
             w1 == IF method \in OwnHandlers THEN CallOwn(w, method) ELSE w
             w2 == Then(w1, LAMBDA x : CallViews(x, x.self.views.items, method))
         IN  Dispatch(IF Matches(event, action) THEN w2 ELSE w,
                      event, Tail(order))

on_key_press(w, event, order) == Dispatch(w, event, order)

(***************************************************************************)
(* Inputs.                                                                 *)
(***************************************************************************)
\* the arguments of a call that passes a settings structure
BaseArgs == [DefaultArgs EXCEPT !.settings = SettingsRef("default")]

ArgValues ==
    [image_path : {Str("image.exr"), Str("rgba.png"), Str("grey.png"),
                   Str("missing.exr"), None},
     input_colourspace : {Str("Rec. 709"), Str("nope")},
     input_oecf : {Str("Rec. 709"), Str("nope"), None},
     input_linear : {PyBool(TRUE), PyBool(FALSE)},
     input_resample : {PyInt(1), PyInt(2), PyInt(3), PyInt(0), PyInt(-1), None},
     reference_colourspace :
         {Str(r) : r \in Range(REFERENCE_COLOURSPACES)} \cup {Str("nope"), None},
     correlate_colourspace :
         {Str(c) : c \in RGB_COLOURSPACES} \cup {Str("nope")},
     settings : {SettingsRef(id) : id \in SettingsNames} \cup {None},
     layout : {Str("layout_1"), Str("layout_2"), Str("layout_x"), None}]

\* argument records that differ from base in at most k of the given fields
Deviations(base, fields, k) ==
    {a \in ArgValues :
        /\ \A f \in DOMAIN base : a[f] # base[f] => f \in fields
        /\ Cardinality({f \in DOMAIN base : a[f] # base[f]}) <= k}

ArgFields == DOMAIN DefaultArgs

\* handlers the view classes may define
NoHandlers == [v \in ViewNames |-> {}]

AllHandlers ==
    [v \in ViewNames |-> {"cycle_correlate_colourspace_action",
                          "toggle_axis_action", "fit_image_action"}]

SomeHandlers ==
    [v \in ViewNames |->
        CASE v = "gamut_view" -> {"toggle_axis_action"}
          [] v = "diagram_view" -> {"cycle_reference_colourspace_action"}
          [] OTHER -> {}]

\* values assigned to the attributes after construction
SetterValues(field) ==
    CASE field \in {"input_colourspace", "input_oecf", "correlate_colourspace"} ->
             {Str("sRGB"), Str("nope"), None, PyInt(42)}
      [] field = "reference_colourspace" ->
             {Str("CIE Lab"), Str("nope"), None, PyInt(42)}
      [] field = "image_path" -> {Str("rgba.png"), Str("missing.exr"), None}
      [] field = "image" -> {NdArray(<<1, 1, 3>>), Str("nope"), None}
      [] field = "input_linear" -> {PyBool(FALSE), Str("nope"), None}
      [] field = "input_resample" ->
             {PyInt(2), PyInt(0), PyInt(-1), Str("nope"), None}
      [] field = "layout" -> {Str("layout_2"), PyInt(42), None}
      [] OTHER -> {None, ViewRef("gamut_view"), SettingsRef("one")}

KeyEvent(key, modifiers) == [key |-> key, modifiers |-> modifiers]

KeyEvents ==
    {KeyEvent("g", <<"Control">>), KeyEvent("G", <<"control">>),
     KeyEvent("g", <<>>), KeyEvent("g", <<"Shift">>),
     KeyEvent("g", <<"Control", "Shift">>), KeyEvent("r", <<>>),
     KeyEvent("R", <<"Shift", "Control">>),
     KeyEvent("r", <<"Control", "Shift">>),
     KeyEvent("None", <<>>)}

\* Orders in which a dict of n entries may hand out its values.  Python
\* fixes none; the ascending and the descending one put every two entries
\* in both relative orders.
Orders(n) == {[k \in 1..n |-> k], [k \in 1..n |-> n + 1 - k]}

(***************************************************************************)
(* The state machine.                                                      *)
(***************************************************************************)
SelfFields ==
    {"image_path", "image", "input_colourspace", "input_oecf", "input_linear",
     "input_resample", "reference_colourspace", "correlate_colourspace",
     "settings", "layout", "layout_presets", "actions", "console_view",
     "gamut_view", "image_view", "diagram_view", "views", "grid",
     "RGB_colourspaces_cycle", "reference_colourspaces_cycle", "visible"}

\* the world an operation starts in: the outcome and the call log are its own
World ==
    [self |-> self, view |-> view, error |-> NoError, calls |-> <<>>,
     yielded |-> yielded]

Commit(w) ==
    /\ self' = w.self
    /\ view' = w.view
    /\ error' = w.error
    /\ calls' = w.calls
    /\ yielded' = w.yielded

\* the operation that led to the current state, with its inputs
Operation(name, field, value, event) ==
    [name |-> name, field |-> field, value |-> value, event |-> event]

NoEvent == [key |-> "", modifiers |-> <<>>]

Init ==
    /\ pc = "new"
    /\ args = DefaultArgs
    /\ op = Operation("", "", None, NoEvent)
    /\ self = [f \in SelfFields |-> Unset]
    /\ view = [v \in ViewNames |-> NoView]
    /\ error = NoError
    /\ calls = <<>>
    /\ yielded = [correlate |-> <<>>, reference |-> <<>>]
    /\ exposes = NoHandlers
    /\ raises = {}

\* Analysis(**a), the view classes defining the handlers of h, with the
\* handlers and property setters of r raising when they are called
ConstructWith(ArgSet, HandlerSet, RaiseSet) ==
    /\ pc = "new"
    /\ \E a \in ArgSet, h \in HandlerSet, r \in RaiseSet :
          LET w == __init__(World, a)
          IN  /\ Commit(w)
              /\ args' = a
              /\ op' = Operation("__init__", "", None, NoEvent)
              /\ exposes' = h
              /\ raises' = r
              /\ pc' = IF Failed(w) THEN "failed" ELSE "ready"

\* Analysis(**a) with view classes none of whose methods raises
Construct(ArgSet, HandlerSet) == ConstructWith(ArgSet, HandlerSet, {{}})

\* analysis.<field> = value
SetAttribute(Fields) ==
    /\ pc = "ready"
    /\ \E field \in Fields :
          \E value \in SetterValues(field) :
             /\ Commit(setattr(World, field, value))
             /\ op' = Operation("setattr", field, value, NoEvent)
    /\ UNCHANGED <<pc, args, exposes, raises>>

\* the canvas delivers a key press event
KeyPress ==
    /\ pc = "ready"
    /\ \E event \in KeyEvents :
          \E order \in Orders(Len(self.actions.items)) :
             /\ Commit(on_key_press(World, event, order))
             /\ op' = Operation("on_key_press", "", None, event)
    /\ UNCHANGED <<pc, args, exposes, raises>>

CycleCorrelate ==
    /\ pc = "ready"
    /\ Commit(cycle_correlate_colourspace_action(World))
    /\ op' = Operation("cycle_correlate_colourspace_action", "", None, NoEvent)
    /\ UNCHANGED <<pc, args, exposes, raises>>

CycleReference ==
    /\ pc = "ready"
    /\ Commit(cycle_reference_colourspace_action(World))
    /\ op' = Operation("cycle_reference_colourspace_action", "", None, NoEvent)
    /\ UNCHANGED <<pc, args, exposes, raises>>

ConstructAny ==
    Construct(Deviations(BaseArgs, ArgFields, 2), {NoHandlers})

NextConstruct == ConstructAny

SpecConstruct == Init /\ [][NextConstruct]_vars

(***************************************************************************)
(* Specifications.                                                         *)
(***************************************************************************)
\* construction followed by assignments to the attributes
ConstructForSetters ==
    Construct(Deviations(BaseArgs,
                         {"reference_colourspace", "correlate_colourspace"},
                         1),
              {NoHandlers})

SetColourspaceOrReadOnly == SetAttribute(ColourspaceFields \cup ReadOnlyFields)

NextSetters ==
    \/ ConstructForSetters
    \/ SetColourspaceOrReadOnly

SpecSetters == Init /\ [][NextSetters]_vars

\* construction from any initial selection followed by the cycling actions
ConstructForCycles ==
    Construct(Deviations(BaseArgs,
                         {"reference_colourspace", "correlate_colourspace"}, 2),
              {NoHandlers})

NextCycles ==
    \/ ConstructForCycles
    \/ CycleCorrelate
    \/ CycleReference

SpecCycles == Init /\ [][NextCycles]_vars

\* construction followed by key presses
ConstructForKeys ==
    Construct(Deviations(BaseArgs, {"settings", "layout"}, 2),
              {NoHandlers, AllHandlers, SomeHandlers})

NextKeys ==
    \/ ConstructForKeys
    \/ KeyPress

SpecKeys == Init /\ [][NextKeys]_vars

\* construction followed by assignments to the colour space attributes
\* interleaved with a few invocations of the cycling actions
MaxFrame == 2

ConstructForFrame == Construct({BaseArgs}, {NoHandlers})

SetColourspace == SetAttribute(ColourspaceFields)

FrameCycleCorrelate ==
    /\ Len(yielded.correlate) < MaxFrame
    /\ CycleCorrelate

FrameCycleReference ==
    /\ Len(yielded.reference) < MaxFrame
    /\ CycleReference

NextFrame ==
    \/ ConstructForFrame
    \/ SetColourspace
    \/ FrameCycleCorrelate
    \/ FrameCycleReference

SpecFrame == Init /\ [][NextFrame]_vars

\* construction followed by assignments to the two selections interleaved
\* with the cycling actions
MaxMixed == 4

ConstructForMixed ==
    Construct(Deviations(BaseArgs, {"correlate_colourspace"}, 1),
              {NoHandlers})

SetSelection ==
    SetAttribute({"reference_colourspace", "correlate_colourspace"})

MixedCycleCorrelate ==
    /\ Len(yielded.correlate) < MaxMixed
    /\ CycleCorrelate

MixedCycleReference ==
    /\ Len(yielded.reference) < MaxMixed
    /\ CycleReference

NextMixed ==
    \/ ConstructForMixed
    \/ SetSelection
    \/ MixedCycleCorrelate
    \/ MixedCycleReference

SpecMixed == Init /\ [][NextMixed]_vars

\* construction with any resample factor followed by assignments to the
\* attributes of the image pipeline and to the layout
ConstructForPipeline ==
    Construct(Deviations(BaseArgs, {"input_resample"}, 1), {NoHandlers})

SetPipeline ==
    SetAttribute({"image_path", "image", "input_linear", "input_resample",
                  "layout"})

NextPipeline ==
    \/ ConstructForPipeline
    \/ SetPipeline

SpecPipeline == Init /\ [][NextPipeline]_vars

\* methods of the view classes that raise, one set per run
FailingSets ==
    {{},
     {<<"console_view", "cycle_correlate_colourspace_action">>},
     {<<"gamut_view", "toggle_axis_action">>},
     {<<"image_view", "toggle_axis_action">>,
      <<"image_view", "cycle_correlate_colourspace_action">>},
     {<<"gamut_view", "correlate_colourspace">>},
     {<<"image_view", "correlate_colourspace">>},
     {<<"gamut_view", "reference_colourspace">>}}

\* construction with view classes some of whose methods raise, followed by
\* key presses
ConstructForFailures ==
    ConstructWith(Deviations(BaseArgs, {"settings"}, 1),
                  {AllHandlers, SomeHandlers}, FailingSets)

NextFailures ==
    \/ ConstructForFailures
    \/ KeyPress

SpecFailures == Init /\ [][NextFailures]_vars

(***************************************************************************)
(* Properties.                                                             *)
(***************************************************************************)
\* the registry a colour space valued attribute is validated against
RegistryOf(field) ==
    IF field = "reference_colourspace"
    THEN Range(REFERENCE_COLOURSPACES)
    ELSE RGB_COLOURSPACES

\* C1: assigning a name of the registry to input_colourspace, input_oecf,
\* reference_colourspace or correlate_colourspace succeeds and the attribute
\* then reads back that name; assigning a name that is not in the registry
\* ends in an error and the attribute keeps the value it had.
C1_ColourspaceSetters ==
    [][(op'.name = "setattr" /\ op'.field \in ColourspaceFields
           /\ op'.value.type = "str")
       => IF op'.value.s \in RegistryOf(op'.field)
          THEN error' = NoError /\ self'[op'.field] = op'.value
          ELSE error' # NoError /\ self'[op'.field] = self[op'.field]]_vars

\* C1 witness: a name outside the registry was assigned to an attribute that
\* held a registry name, after a registry name had been assigned to another
C1_Witness ==
    /\ pc = "ready"
    /\ op.name = "setattr"
    /\ op.field = "correlate_colourspace"
    /\ op.value = Str("nope")
    /\ error # NoError
    /\ self.correlate_colourspace = Str("ACEScg")
    /\ self.reference_colourspace = Str("CIE Lab")
    /\ args.reference_colourspace # Str("CIE Lab")

\* C2: a write to settings, actions, console_view, gamut_view, image_view or
\* diagram_view, with any value and in any state after construction, ends in
\* an error and leaves the attribute as it was.
C2_ReadOnly ==
    [][(op'.name = "setattr" /\ op'.field \in ReadOnlyFields)
       => /\ error' = [type |-> "AttributeError", at |-> op'.field]
          /\ self'[op'.field] = self[op'.field]]_vars

\* C2 witness: a view handle was written after the attributes had changed
C2_Witness ==
    /\ pc = "ready"
    /\ op.name = "setattr"
    /\ op.field = "gamut_view"
    /\ op.value = None
    /\ error.type = "AttributeError"
    /\ self.gamut_view = ViewRef("gamut_view")
    /\ self.input_colourspace = Str("sRGB")

\* names the correlate cycle hands out
EligibleColourspaces == RGB_COLOURSPACES \ ExcludedColourspaces

\* the name sorted() puts last among the eligible ones
LastEligible ==
    CHOOSE c \in EligibleColourspaces :
        \A d \in EligibleColourspaces : Rank(d) <= Rank(c)

\* C3 as stated: N invocations of cycle_correlate_colourspace after
\* construction, N the number of registry names outside the exclusion set,
\* leave the correlate colour space equal to the initial selection.
C3_ReturnsToInitial ==
    (pc = "ready" /\ Len(yielded.correlate) = Cardinality(EligibleColourspaces))
    => self.correlate_colourspace = args.correlate_colourspace

\* C3 amended: N invocations after construction leave the correlate colour
\* space equal to the last eligible name in sorted order, whatever the initial
\* selection; every value the action assigns is assigned again N invocations
\* later, and the attribute holds the value assigned last.
C3_CyclePeriod ==
    pc = "ready" =>
        LET y == yielded.correlate
            N == Cardinality(EligibleColourspaces)
        IN  /\ \A k \in 1..Len(y) : k > N => y[k] = y[k - N]
            /\ \A j, k \in 1..Len(y) : (j < k /\ k - j < N) => y[j] # y[k]
            /\ Len(y) = N => self.correlate_colourspace = Str(LastEligible)
            /\ (1 <= Len(y) /\ Len(y) < MaxCycles)
               => self.correlate_colourspace = Str(y[Len(y)])

\* C3 witness: more than N invocations from an initial selection that is
\* not the last eligible name
C3_Witness ==
    /\ pc = "ready"
    /\ Len(yielded.correlate) = Cardinality(EligibleColourspaces) + 1
    /\ args.correlate_colourspace = Str("ACEScg")
    /\ self.correlate_colourspace = Str("ACEScg")

\* position of a name in REFERENCE_COLOURSPACES, counted from 1
RefPosition(r) == CHOOSE k \in 1..NumRef : REFERENCE_COLOURSPACES[k] = r

\* C4: from the initial reference colour space R the successive
\* cycle_reference_colourspace actions first yield the name that follows R in
\* REFERENCE_COLOURSPACES (the first after the last), then every other name
\* once, and R only after all the others.
C4_ReferenceCycle ==
    pc = "ready" =>
        LET y == yielded.reference
            R == args.reference_colourspace.s
        IN  /\ Len(y) >= 1
               => y[1] = REFERENCE_COLOURSPACES[(RefPosition(R) % NumRef) + 1]
            /\ \A j, k \in 1..Len(y) : (j < k /\ k <= NumRef) => y[j] # y[k]
            /\ \A k \in 1..Len(y) : k < NumRef => y[k] # R
            /\ Len(y) >= NumRef => y[NumRef] = R
            /\ (1 <= Len(y) /\ Len(y) < MaxCycles)
               => self.reference_colourspace = Str(y[Len(y)])

\* C4 witness: a whole round from the last name of the registry
C4_Witness ==
    /\ pc = "ready"
    /\ args.reference_colourspace = Str(REFERENCE_COLOURSPACES[NumRef])
    /\ Len(yielded.reference) = NumRef
    /\ self.reference_colourspace = args.reference_colourspace

\* number of times a handler was invoked by the last operation
Count(q, x) == Cardinality({k \in 1..Len(q) : q[k] = x})

\* actions of the coordinator bound to the chord ({"control"}, "g")
BoundToControlG ==
    {k \in 1..Len(self.actions.items) :
        /\ self.actions.items[k].sequence.key = Str("g")
        /\ self.actions.items[k].sequence.modifiers = <<"control">>}

Targets == ViewNames \cup {"self"}

\* C5: with one action bound to the chord ({"control"}, "g"), a key press
\* with key "g" and held modifier "Control", in any letter case, invokes the
\* handler of that action exactly once, and a key press with key "g" and no
\* held modifier does not invoke it.
C5_ChordDispatch ==
    (pc = "ready" /\ op.name = "on_key_press"
        /\ Cardinality(BoundToControlG) = 1)
    => LET a == self.actions.items[CHOOSE k \in BoundToControlG : TRUE]
           method == MethodName(a.name)
       IN  /\ (op.event.key \in {"g", "G"}
                  /\ op.event.modifiers \in {<<"Control">>, <<"control">>})
              => /\ Count(calls, <<"self", method>>) = 1
                 /\ \A v \in ViewNames : Count(calls, <<v, method>>) <= 1
           /\ (op.event.key \in {"g", "G"} /\ op.event.modifiers = <<>>)
              => \A t \in Targets : Count(calls, <<t, method>>) = 0

\* C5 witness: the key press "g" with "Control" held reached the handler of
\* the only action of the settings
C5_Witness ==
    /\ pc = "ready"
    /\ args.settings = SettingsRef("one")
    /\ op.name = "on_key_press"
    /\ op.event = KeyEvent("g", <<"Control">>)
    /\ Count(calls, <<"self", "cycle_correlate_colourspace_action">>) = 1

\* C6: on a key press whose chord matches a registered action, every one of
\* the four constructed views that defines the handler <action>_action has it
\* invoked.
C6_AllViewsDispatched ==
    (pc = "ready" /\ op.name = "on_key_press")
    => \A k \in 1..Len(self.actions.items) :
          Matches(op.event, self.actions.items[k])
          => \A v \in ViewNames :
                (/\ view[v].constructed = 1
                 /\ MethodName(self.actions.items[k].name) \in exposes[v])
                => <<v, MethodName(self.actions.items[k].name)>> \in Range(calls)

\* C7: when cycle_correlate_colourspace has completed, the gamut, image and
\* diagram views, each constructed with a correlate colour space, hold the
\* correlate colour space the coordinator was just assigned.
C7_ViewsHoldCorrelate ==
    (/\ pc = "ready"
     /\ \/ op.name = "cycle_correlate_colourspace_action"
        \/ <<"self", "cycle_correlate_colourspace_action">> \in Range(calls))
    => \A v \in {"gamut_view", "image_view", "diagram_view"} :
          view[v].correlate_colourspace = self.correlate_colourspace

PresetNames == {Layouts[k].name : k \in 1..Len(Layouts)}

\* the arguments a construction goes through with, one by one
ValidArg(a, f) ==
    CASE f = "image_path" ->
             a.image_path.type = "str" /\ a.image_path.s \in ExistingPaths
      [] f \in {"input_colourspace", "input_oecf", "correlate_colourspace"} ->
             a[f].type = "str" /\ a[f].s \in RGB_COLOURSPACES
      [] f = "reference_colourspace" ->
             a[f].type = "str" /\ a[f].s \in Range(REFERENCE_COLOURSPACES)
      [] f = "input_linear" -> a[f].type = "bool"
      [] f = "input_resample" -> a[f].type = "int" /\ a[f].i >= 1
      [] f = "settings" -> a[f] # None
      [] f = "layout" -> a[f].type = "str" /\ a[f].s \in PresetNames

ValidExcept(a, f) == \A g \in ArgFields \ {f} : ValidArg(a, g)

\* C8: construction with an active layout name that the preset table does
\* not hold ends in the error of the layout application, with no view placed
\* in the grid.
C8_LayoutNotFound ==
    (pc # "new" /\ ValidExcept(args, "layout") /\ ~ValidArg(args, "layout"))
    => /\ pc = "failed"
       /\ error = [type |-> "AttributeError", at |-> "__layout_views"]
       /\ self.grid.items = <<>>
       /\ self.visible = Unset

\* C8 witness: a construction that named the layout "layout_x"
C8_Witness ==
    /\ pc = "failed"
    /\ args.layout = Str("layout_x")
    /\ error.at = "__layout_views"
    /\ view["gamut_view"].constructed = 1

\* C9: construction with an image path that does not exist fails before any
\* of the four views is constructed, every view handle being still unset, and
\* it fails with the missing file error of the image_path setter.
C9_MissingImage ==
    (pc # "new" /\ args.image_path.type = "str"
        /\ args.image_path.s \notin ExistingPaths)
    => /\ pc = "failed"
       /\ \A v \in ViewNames : self[v] = Unset /\ view[v].constructed = 0
       /\ self.views = Unset
       /\ args.settings # None
          => error = [type |-> "AssertionError", at |-> "image_path"]

\* C9 witness: a construction that named a file that does not exist
C9_Witness ==
    /\ pc = "failed"
    /\ args.image_path = Str("missing.exr")
    /\ args.settings # None
    /\ error.at = "image_path"

\* C10: construction with the settings omitted loads the settings of
\* SETTINGS_FILE and goes on with them.
C10_DefaultSettings ==
    (pc # "new" /\ args.settings = None /\ ValidExcept(args, "settings"))
    => /\ pc = "ready"
       /\ error = NoError
       /\ self.settings = SettingsRef(SETTINGS_FILE)


\* the least number of groups of n that cover h
CeilDiv(h, n) == CHOOSE m \in 0..h : m * n >= h /\ (m - 1) * n < h

\* C11: for a decoded image of H rows and W columns and a resample factor
\* N >= 1 the stored image has ceil(H / N) rows and ceil(W / N) columns, so
\* N = 2 halves each dimension rounding up and N = 1 leaves them alone, and it
\* has 3 channels whenever the decoded image has at least 3.
C11_Resampling ==
    (pc = "ready" /\ args.input_resample.type = "int"
        /\ args.input_resample.i >= 1)
    => LET d == DecodedShape(args.image_path.s)
           N == args.input_resample.i
           shape == self.image.items
       IN  /\ self.image.type = "ndarray"
           /\ shape[1] = CeilDiv(d[1], N)
           /\ shape[2] = CeilDiv(d[2], N)
           /\ N = 1 => (shape[1] = d[1] /\ shape[2] = d[2])
           /\ N = 2 => (2 * shape[1] \in {d[1], d[1] + 1}
                        /\ 2 * shape[2] \in {d[2], d[2] + 1})
           /\ d[3] >= 3 => shape[3] = 3

\* C11 witness: an image of 4 rows, 5 columns and 3 channels resampled by 2
C11_Witness ==
    /\ pc = "ready"
    /\ args.image_path = Str("image.exr")
    /\ args.input_resample = PyInt(2)
    /\ self.image = NdArray(<<2, 3, 3>>)


\* C12: an assignment to a colour space attribute through its setter changes
\* no other attribute of the coordinator: the values the views hold and the
\* positions of the two cycles are what they were before it.
C12_SetterFrame ==
    [][(op'.name = "setattr" /\ op'.field \in ColourspaceFields)
       => /\ view' = view
          /\ self'.RGB_colourspaces_cycle = self.RGB_colourspaces_cycle
          /\ self'.reference_colourspaces_cycle
                = self.reference_colourspaces_cycle
          /\ \A f \in SelfFields \ {op'.field} : self'[f] = self[f]]_vars

\* C12 witness: the reference colour space was set to a name that the gamut
\* view does not hold, after the two cycles had moved
C12_Witness ==
    /\ op.name = "setattr"
    /\ op.field = "reference_colourspace"
    /\ error = NoError
    /\ self.reference_colourspace = Str("CIE Lab")
    /\ view["gamut_view"].reference_colourspace # Str("CIE Lab")
    /\ self.RGB_colourspaces_cycle.i > 0
    /\ self.reference_colourspaces_cycle.i > 0


\* C13: in every state reached from a successful construction by key presses
\* alone the gamut view holds the reference colour space of the coordinator,
\* and the gamut view and the image view hold its correlate colour space.
C13_ViewsFollowKeys ==
    pc = "ready"
    => /\ view["gamut_view"].reference_colourspace
             = self.reference_colourspace
       /\ view["gamut_view"].correlate_colourspace
             = self.correlate_colourspace
       /\ view["image_view"].correlate_colourspace
             = self.correlate_colourspace

\* C13 witness: key presses have cycled both selections away from the ones
\* the coordinator was constructed with
C13_Witness ==
    /\ pc = "ready"
    /\ op.name = "on_key_press"
    /\ Len(yielded.correlate) >= 2
    /\ Len(yielded.reference) >= 1
    /\ self.correlate_colourspace # args.correlate_colourspace
    /\ self.reference_colourspace # args.reference_colourspace


\* attributes of the image pipeline, and the layout
PipelineFields ==
    {"image", "image_path", "input_colourspace", "input_oecf", "input_linear",
     "input_resample", "layout"}

\* C14: the correlate cycle action leaves the image, the image path, the
\* input colour space, the input OECF, the linearity flag, the resample
\* factor, the reference colour space and the layout as they were; the
\* reference cycle action leaves these and the correlate colour space as they
\* were; and no step after construction changes the image.
C14_CycleFrame ==
    [][/\ op'.name = "cycle_correlate_colourspace_action"
          => \A f \in PipelineFields \cup {"reference_colourspace"} :
                self'[f] = self[f]
       /\ op'.name = "cycle_reference_colourspace_action"
          => \A f \in PipelineFields \cup {"correlate_colourspace"} :
                self'[f] = self[f]
       /\ pc = "ready" => self'.image = self.image]_vars

\* C14 witness: the reference cycle action ran after the input OECF had been
\* replaced, with the image of the construction still in place
C14_Witness ==
    /\ op.name = "cycle_reference_colourspace_action"
    /\ self.reference_colourspace # args.reference_colourspace
    /\ self.input_oecf = Str("sRGB")
    /\ self.input_oecf # args.input_oecf
    /\ self.image = NdArray(<<4, 5, 3>>)
    /\ Len(yielded.correlate) >= 1


\* the registered actions whose chord is the one of the event, letter case
\* of the event aside
ChordMatches(event) ==
    {k \in 1..Len(self.actions.items) :
        LET chord == self.actions.items[k].sequence
        IN  /\ chord.key = Str(lower(event.key))
            /\ Range(chord.modifiers) = Range(lowered(event.modifiers))
            /\ Len(chord.modifiers) = Len(event.modifiers)}

\* C15: a key press whose chord is the chord of no registered action invokes
\* no handler of the coordinator or of a view, raises no error and leaves the
\* state of the coordinator and of the views as it was.
C15_UnmatchedKeyPress ==
    [][(op'.name = "on_key_press" /\ ChordMatches(op'.event) = {})
       => /\ calls' = <<>>
          /\ error' = NoError
          /\ self' = self
          /\ view' = view
          /\ yielded' = yielded
          /\ pc' = pc]_vars

\* C15 witness: "g" with "Shift" held, which no action of the default
\* settings is bound to, was pressed with every view defining handlers
C15_Witness ==
    /\ pc = "ready"
    /\ args.settings = SettingsRef("default")
    /\ exposes = AllHandlers
    /\ op.name = "on_key_press"
    /\ op.event = KeyEvent("g", <<"Shift">>)
    /\ ChordMatches(op.event) = {}
    /\ calls = <<>>
    /\ Len(yielded.correlate) >= 1


\* the name sorted() puts first among the eligible ones
FirstEligible ==
    CHOOSE c \in EligibleColourspaces :
        \A d \in EligibleColourspaces : Rank(c) <= Rank(d)

\* the eligible name that follows c in sorted order, the first after the last
NextEligible(c) ==
    IF \A d \in EligibleColourspaces : Rank(d) <= Rank(c)
    THEN FirstEligible
    ELSE CHOOSE d \in EligibleColourspaces :
            /\ Rank(d) > Rank(c)
            /\ \A e \in EligibleColourspaces :
                  Rank(e) > Rank(c) => Rank(d) <= Rank(e)

\* the name that follows r in REFERENCE_COLOURSPACES, the first after the last
NextReference(r) == REFERENCE_COLOURSPACES[(RefPosition(r) % NumRef) + 1]

Last(q) == q[Len(q)]

\* the values the two cycle actions have produced follow the order of the
\* cycles from where the construction started them
CycleOrderKept ==
    pc = "ready"
    => LET yc == yielded.correlate
           yr == yielded.reference
       IN  /\ Len(yc) >= 1 => yc[1] = FirstEligible
           /\ \A k \in 1..(Len(yc) - 1) : yc[k + 1] = NextEligible(yc[k])
           /\ Len(yr) >= 1
              => yr[1] = NextReference(args.reference_colourspace.s)
           /\ \A k \in 1..(Len(yr) - 1) : yr[k + 1] = NextReference(yr[k])

\* C16: the cycles are never started over: a cycle action that follows an
\* assignment of X through the setter yields the successor of the value the
\* cycle yielded last, whatever X is, and the values the cycle actions
\* produce are the same whatever assignments are made in between.
C16_NeverReseeded ==
    [][/\ CycleOrderKept'
       /\ (op.name = "setattr" /\ op.field = "correlate_colourspace"
             /\ op'.name = "cycle_correlate_colourspace_action")
          => self'.correlate_colourspace
                = Str(IF yielded.correlate = <<>>
                      THEN FirstEligible
                      ELSE NextEligible(Last(yielded.correlate)))
       /\ (op.name = "setattr" /\ op.field = "reference_colourspace"
             /\ op'.name = "cycle_reference_colourspace_action")
          => self'.reference_colourspace
                = Str(IF yielded.reference = <<>>
                      THEN NextReference(args.reference_colourspace.s)
                      ELSE NextReference(Last(yielded.reference)))]_vars

\* C16 witness: after one cycle action the setter assigned a correlate
\* colour space whose successor is not the successor of the value yielded
C16_Witness ==
    /\ pc = "ready"
    /\ op.name = "setattr"
    /\ op.field = "correlate_colourspace"
    /\ error = NoError
    /\ self.correlate_colourspace = Str("sRGB")
    /\ Len(yielded.correlate) = 1
    /\ NextEligible(Last(yielded.correlate)) # NextEligible("sRGB")
    /\ Peek(self.RGB_colourspaces_cycle)
          = NextEligible(Last(yielded.correlate))


\* the views the active layout has placed in the grid
Placed == {self.grid.items[k].view : k \in 1..Len(self.grid.items)}

\* the handler names of the registered actions
Methods ==
    {MethodName(self.actions.items[k].name) :
        k \in 1..Len(self.actions.items)}

\* C17: every successful construction constructs each of the four views
\* exactly once, whatever views the active layout places, and a view the
\* layout does not place gets the handler invocations and the colour space
\* updates that it gets when the layout places it.
C17_ViewsIndependentOfLayout ==
    pc = "ready"
    => /\ \A v \in ViewNames : view[v].constructed = 1
       /\ \A v \in {"gamut_view", "image_view"} :
             view[v].correlate_colourspace = self.correlate_colourspace
       /\ view["gamut_view"].reference_colourspace
             = self.reference_colourspace
       /\ op.name = "on_key_press"
          => \A v \in ViewNames, m \in Methods :
                Count(calls, <<v, m>>)
                   = IF v \in Range(self.views.items) /\ m \in exposes[v]
                     THEN Cardinality(
                            {k \in ChordMatches(op.event) :
                                MethodName(self.actions.items[k].name) = m})
                     ELSE 0

\* C17 witness: under a layout that places the gamut view alone the image
\* view had its handler invoked and was handed the new correlate
C17_Witness ==
    /\ pc = "ready"
    /\ args.layout = Str("layout_2")
    /\ Placed = {"gamut_view"}
    /\ \A v \in ViewNames : view[v].constructed = 1
    /\ op.name = "on_key_press"
    /\ <<"image_view", "cycle_correlate_colourspace_action">> \in Range(calls)
    /\ view["image_view"].correlate_colourspace = self.correlate_colourspace
    /\ self.correlate_colourspace # args.correlate_colourspace


\* the call c of the last operation raised
CallFails(c) ==
    IF c[1] # "self" THEN c \in raises
    ELSE CASE c[2] = "cycle_correlate_colourspace_action" ->
                 \/ <<"gamut_view", "correlate_colourspace">> \in raises
                 \/ <<"image_view", "correlate_colourspace">> \in raises
           [] c[2] = "cycle_reference_colourspace_action" ->
                 <<"gamut_view", "reference_colourspace">> \in raises
           [] OTHER -> FALSE

\* C18: when the handler of the coordinator or of a view fails during a key
\* press, on_key_press ends with that failure, and no handler is invoked
\* after the failing one, neither of a later view nor of a later matching
\* action.
C18_FailurePropagates ==
    op.name = "on_key_press"
    => /\ (\E k \in 1..Len(calls) : CallFails(calls[k])) <=> error # NoError
       /\ \A k \in 1..Len(calls) : CallFails(calls[k]) => k = Len(calls)

\* C18 witness: the handler of the console view failed, the gamut and image
\* views defining the same handler and a second action being bound to the
\* same chord
C18_Witness ==
    /\ pc = "ready"
    /\ args.settings = SettingsRef("shared")
    /\ exposes = AllHandlers
    /\ op.name = "on_key_press"
    /\ Cardinality(ChordMatches(op.event)) = 2
    /\ calls = << <<"self", "cycle_correlate_colourspace_action">>,
                  <<"console_view", "cycle_correlate_colourspace_action">> >>
    /\ error = [type |-> "RuntimeError", at |-> "console_view"]


\* C19: in every reachable state the resample factor of the coordinator,
\* when set, is an integer not below 1, whether the constructor or the
\* input_resample setter stored it.
C19_ResamplePositive ==
    self.input_resample \notin {None, Unset}
    => /\ self.input_resample.type = "int"
       /\ self.input_resample.i >= 1


\* C20: after any interleaving of assignments, successful or failing, and
\* cycle actions, the correlate colour space is unset or a name of
\* RGB_COLOURSPACES and the reference colour space is unset or a name of
\* REFERENCE_COLOURSPACES; and right after a correlate cycle action the
\* correlate colour space is none of "aces", "adobe1998" and "prophoto".
C20_SelectionsInRegistry ==
    pc = "ready"
    => /\ \/ self.correlate_colourspace = None
          \/ /\ IsString(self.correlate_colourspace)
             /\ self.correlate_colourspace.s \in RGB_COLOURSPACES
       /\ \/ self.reference_colourspace = None
          \/ /\ IsString(self.reference_colourspace)
             /\ self.reference_colourspace.s \in Range(REFERENCE_COLOURSPACES)
       /\ op.name = "cycle_correlate_colourspace_action"
          => self.correlate_colourspace.s \notin ExcludedColourspaces

\* C20 witness: a correlate cycle action on a coordinator constructed with
\* an excluded correlate colour space, after an assignment to the reference
C20_Witness ==
    /\ pc = "ready"
    /\ op.name = "cycle_correlate_colourspace_action"
    /\ args.correlate_colourspace = Str("aces")
    /\ self.correlate_colourspace.s \in EligibleColourspaces
    /\ self.reference_colourspace = Str("CIE Lab")
    /\ yielded.reference = <<>>


\* the registered actions whose settings entry has no key sequence
Unbound ==
    {k \in 1..Len(self.actions.items) :
        Settings(args.settings.s).actions[k].sequence = None}

\* C21: an action registered without a key sequence is stored with no
\* modifiers and no key, and no key press, whatever its key and held
\* modifiers, invokes its handler on the coordinator or on a view.
C21_UnboundNeverInvoked ==
    pc = "ready"
    => \A k \in Unbound :
          LET action == self.actions.items[k]
          IN  /\ action.sequence.modifiers = <<>>
              /\ action.sequence.key = None
              /\ op.name = "on_key_press"
                 => \A t \in Targets :
                       Count(calls, <<t, MethodName(action.name)>>) = 0

\* C21 witness: a key press without modifiers reached the handlers of
\* another action while every view defines the handler of the action
\* registered without a sequence
C21_Witness ==
    /\ pc = "ready"
    /\ Unbound # {}
    /\ exposes = AllHandlers
    /\ \A k \in Unbound :
          MethodName(self.actions.items[k].name) \in exposes["gamut_view"]
    /\ op.name = "on_key_press"
    /\ op.event.modifiers = <<>>
    /\ <<"gamut_view", "toggle_axis_action">> \in Range(calls)

====
